---- MODULE Spec2Model ----
(***************************************************************************)
(* RTP/HEVC (RFC 7798) depacketizer of rtp-depay-example.                  *)
(*                                                                         *)
(* Bytes are integers 0..255 and a bytes object is a sequence of them.     *)
(* Python's Optional[T] is a sequence of length 0 (None) or 1 (a value).   *)
(* A call that may raise returns a record whose field ok tells whether it  *)
(* returned, and whose field err names the exception class it raised.      *)
(***************************************************************************)
EXTENDS Integers, Sequences, FiniteSets, TLC

VARIABLES
    fed,        \* the datagrams iter_stream has handed to parse_parse so far
    asm,        \* parse_parse: asm, Optional[FragmentAssembler]
    asm_s_idx,  \* parse_parse: asm_s_idx, Optional[int]
    i,          \* parse_parse: index of the next datagram
    out,        \* the (header, bytes) pairs parse_parse has yielded
    written,    \* the bytes parse_cat has written to the output file
    err,        \* the exception that ended the run, "none" if there is none
    status,     \* "running", "done" (generator exhausted) or "failed" (raised)
    log,        \* per datagram: the branch taken, asm before it, Len(out) after it
    cOp,        \* codec harness: the codec under test
    cIn,        \* codec harness: the input bytes
    cPc,        \* codec harness: "in", "decoded" or "encoded"
    cRes,       \* codec harness: the result of decoding cIn
    cEnc,       \* codec harness: the result of encoding the decoded header
    catSrc,     \* cat stream: the datagrams that were packed
    catTail,    \* cat stream: the bytes that follow the packed datagrams
    catData,    \* iter_stream: data, the bytes not yet consumed
    catOut,     \* iter_stream: the datagrams yielded
    catStatus,  \* iter_stream: "running", "done" or "failed"
    catErr,     \* iter_stream: the exception raised, "none" if there is none
    twin,       \* a second run of parse_cat, fed the same datagrams with
                \* other RTP sequence numbers, timestamps, markers and SSRCs
    twinLast    \* the datagram the second run was fed last

vars == <<fed, asm, asm_s_idx, i, out, written, err, status, log,
          cOp, cIn, cPc, cRes, cEnc,
          catSrc, catTail, catData, catOut, catStatus, catErr, twin, twinLast>>

depayVars == <<fed, asm, asm_s_idx, i, out, written, err, status, log>>
codecVars == <<cOp, cIn, cPc, cRes, cEnc>>
catVars == <<catSrc, catTail, catData, catOut, catStatus, catErr>>
twinVars == <<twin, twinLast>>

----------------------------------------------------------------------------
(* Python values                                                           *)

None == <<>>
Some(x) == <<x>>

Byte == 0..255

\* b[n:]
From(b, n) == IF n >= Len(b) THEN <<>> ELSE SubSeq(b, n + 1, Len(b))

\* b[:n]
Upto(b, n) == IF n >= Len(b) THEN b ELSE SubSeq(b, 1, n)

\* b[m:n]
Slice(b, m, n) == From(Upto(b, n), m)

\* (x >> k) & 1
Bit(x, k) == (x \div (2 ^ k)) % 2

Raise(e) == [ok |-> FALSE, err |-> e, val |-> None]
Return(v) == [ok |-> TRUE, err |-> "none", val |-> Some(v)]

----------------------------------------------------------------------------
(* frame.py                                                                *)

AGG_PKT == 48
FRAG_UNIT == 49
PACI_PKT == 50

\* NetworkAbstractLayerHevc.unmarshal with the nuh_temporal_id_plus_one
\* check left out.
NetworkAbstractLayerHevc_unmarshal_noTid(data) ==
    IF Len(data) < 2 THEN Raise("ValueError")
    ELSE IF Bit(data[1], 7) = 1 THEN Raise("ValueError")
    ELSE IF (data[1] % 2) * 32 + ((data[2] \div 8) % 32) # 0 THEN Raise("ValueError")
    ELSE Return([cls |-> "NetworkAbstractLayerHevc",
                 forbidden_zero_bit |-> FALSE,
                 nal_unit_type |-> (data[1] \div 2) % 64,
                 nuh_layer_id |-> 0,
                 nuh_temporal_id_plus_one |-> data[2] % 8])

NetworkAbstractLayerHevc_unmarshal(data) ==
    IF Len(data) < 2 THEN Raise("ValueError")
    ELSE LET forbidden_zero_bit == Bit(data[1], 7) = 1
             nal_unit_type == (data[1] \div 2) % 64
             nuh_layer_id == (data[1] % 2) * 32 + ((data[2] \div 8) % 32)
             nuh_temporal_id_plus_one == data[2] % 8
         IN  IF forbidden_zero_bit THEN Raise("ValueError")
             ELSE IF nuh_layer_id # 0 THEN Raise("ValueError")
             ELSE IF nuh_temporal_id_plus_one = 0 THEN Raise("ValueError")
             ELSE Return([cls |-> "NetworkAbstractLayerHevc",
                          forbidden_zero_bit |-> forbidden_zero_bit,
                          nal_unit_type |-> nal_unit_type,
                          nuh_layer_id |-> nuh_layer_id,
                          nuh_temporal_id_plus_one |-> nuh_temporal_id_plus_one])

\* NetworkAbstractLayerHevc.marshal with nal_unit_type not shifted past the
\* nuh_layer_id bit.
NetworkAbstractLayerHevc_marshal_noShift(self) ==
    << (IF self.forbidden_zero_bit THEN 128 ELSE 0)
         + (self.nal_unit_type % 64) + (self.nuh_layer_id \div 32),
       ((self.nuh_layer_id % 32) * 8) + (self.nuh_temporal_id_plus_one % 8) >>

\* The fields or-ed together occupy disjoint bits, so | is +.
NetworkAbstractLayerHevc_marshal(self) ==
    << (IF self.forbidden_zero_bit THEN 128 ELSE 0)
         + ((self.nal_unit_type % 64) * 2) + (self.nuh_layer_id \div 32),
       ((self.nuh_layer_id % 32) * 8) + (self.nuh_temporal_id_plus_one % 8) >>

----------------------------------------------------------------------------
(* decode.py: codecs                                                       *)

FragmentUnitHeader_unmarshal(b) ==
    IF Len(b) < 1 THEN Raise("AssertionError")
    ELSE Return([cls |-> "FragmentUnitHeader",
                 S |-> Bit(b[1], 7) = 1,
                 E |-> Bit(b[1], 6) = 1,
                 unit_type |-> b[1] % 32])

----------------------------------------------------------------------------
(* decode.py: RTP header                                                   *)

RTP_HEADER_SIZE == 12

\* the values of AssignedType
AssignedType == {0, 3, 4, 5, 6, 7, 8, 9, 10, 11, 12, 13, 14, 15, 16, 17, 18,
                 25, 26, 28, 31, 32, 33, 34, 96}

\* big-endian unsigned integer of the bytes b[m+1..n]
RECURSIVE BigEndian(_, _, _)
BigEndian(b, m, n) == IF n <= m THEN 0 ELSE BigEndian(b, m, n - 1) * 256 + b[n]

\* decode_rtp_header reading the CSRC count from the marker bit.
decode_rtp_header_csrcFromMarker(packet) ==
    IF Len(packet) < RTP_HEADER_SIZE THEN Raise("ValueError")
    ELSE LET t == packet[2] % 128
         IN  Return([version |-> (packet[1] \div 64) % 4,
                     has_padding |-> Bit(packet[1], 5) = 1,
                     has_extension |-> Bit(packet[1], 4) = 1,
                     csrc_count |-> Bit(packet[2], 7),
                     is_marker |-> Bit(packet[2], 7) = 1,
                     payload_type |-> [assigned |-> t \in AssignedType, value |-> t],
                     sequence_number |-> BigEndian(packet, 2, 4),
                     timestamp |-> BigEndian(packet, 4, 8),
                     ssrc |-> BigEndian(packet, 8, 12)])

decode_rtp_header(packet) ==
    IF Len(packet) < RTP_HEADER_SIZE THEN Raise("ValueError")
    ELSE LET t == packet[2] % 128
         IN  Return([version |-> (packet[1] \div 64) % 4,
                     has_padding |-> Bit(packet[1], 5) = 1,
                     has_extension |-> Bit(packet[1], 4) = 1,
                     csrc_count |-> packet[1] % 16,
                     is_marker |-> Bit(packet[2], 7) = 1,
                     payload_type |-> [assigned |-> t \in AssignedType, value |-> t],
                     sequence_number |-> BigEndian(packet, 2, 4),
                     timestamp |-> BigEndian(packet, 4, 8),
                     ssrc |-> BigEndian(packet, 8, 12)])

\* header_length counting one byte for each CSRC identifier.
header_length_oneByte(packet) == 12 + packet.csrc_count

header_length(packet) == 12 + (4 * packet.csrc_count)

unwrap_rtp(packet) ==
    LET slice(header) ==
            IF ~header.ok THEN Raise(header.err)
            ELSE Return([header |-> header.val[1],
                         payload |-> From(packet, header_length(header.val[1]))])
    IN  slice(decode_rtp_header(packet))

----------------------------------------------------------------------------
(* decode.py: fragmentation units                                          *)

\* parse_fu asking for the 3 header bytes only.
parse_fu_len3(b) ==
    LET fu(FU_header) ==
            IF ~FU_header.ok THEN Raise(FU_header.err)
            ELSE Return([h |-> FU_header.val[1], r |-> From(b, 3)])
        wrapped(payload_hdr) ==
            IF ~payload_hdr.ok THEN Raise(payload_hdr.err)
            ELSE IF payload_hdr.val[1].nal_unit_type # FRAG_UNIT
                 THEN Raise("AssertionError")
            ELSE fu(FragmentUnitHeader_unmarshal(Slice(b, 2, 3)))
    IN  IF Len(b) < 3 THEN Raise("AssertionError")
        ELSE wrapped(NetworkAbstractLayerHevc_unmarshal(Upto(b, 2)))

parse_fu(b) ==
    LET fu(FU_header) ==
            IF ~FU_header.ok THEN Raise(FU_header.err)
            ELSE Return([h |-> FU_header.val[1], r |-> From(b, 3)])
        wrapped(payload_hdr) ==
            IF ~payload_hdr.ok THEN Raise(payload_hdr.err)
            ELSE IF payload_hdr.val[1].nal_unit_type # FRAG_UNIT
                 THEN Raise("AssertionError")
            ELSE fu(FragmentUnitHeader_unmarshal(Slice(b, 2, 3)))
    IN  IF Len(b) < 4 THEN Raise("AssertionError")
        ELSE wrapped(NetworkAbstractLayerHevc_unmarshal(Upto(b, 2)))

\* FragmentAssembler.__init__ without the assertion on the S bit.
FragmentAssembler_init_noS(data) ==
    LET make(p) ==
            IF ~p.ok THEN Raise(p.err)
            ELSE Return([first_header |-> Some(p.val[1].h), data |-> Some(p.val[1].r)])
    IN  make(parse_fu(data))

\* FragmentAssembler.__init__: the new object's _first_header and _data
FragmentAssembler_init(data) ==
    LET make(p) ==
            IF ~p.ok THEN Raise(p.err)
            ELSE IF ~p.val[1].h.S THEN Raise("AssertionError")
            ELSE Return([first_header |-> Some(p.val[1].h), data |-> Some(p.val[1].r)])
    IN  make(parse_fu(data))

FragmentAssembler_reset(self) == [first_header |-> None, data |-> None]

\* FragmentAssembler.next without the assertion on the S bit.
FragmentAssembler_next_noS(self, data) ==
    LET finish(E, grown) ==
            IF E
            THEN Return([self |-> FragmentAssembler_reset(grown),
                         ret |-> Some([h |-> grown.first_header[1], b |-> grown.data[1]])])
            ELSE Return([self |-> grown, ret |-> None])
        append(p) ==
            IF ~p.ok THEN Raise(p.err)
            ELSE finish(p.val[1].h.E,
                        [self EXCEPT !.data = Some(self.data[1] \o p.val[1].r)])
    IN  append(parse_fu(data))

\* FragmentAssembler.next taking the header of the unit from the last
\* fragment instead of the first.
FragmentAssembler_next_lastHeader(self, data) ==
    LET finish(h, grown) ==
            IF h.E
            THEN Return([self |-> FragmentAssembler_reset(grown),
                         ret |-> Some([h |-> h, b |-> grown.data[1]])])
            ELSE Return([self |-> grown, ret |-> None])
        append(p) ==
            IF ~p.ok THEN Raise(p.err)
            ELSE IF p.val[1].h.S THEN Raise("AssertionError")
            ELSE finish(p.val[1].h,
                        [self EXCEPT !.data = Some(self.data[1] \o p.val[1].r)])
    IN  append(parse_fu(data))

\* FragmentAssembler.next: the object after the call (self) and what the
\* call returns (ret); when it raises the object is as it was.
FragmentAssembler_next(self, data) ==
    LET finish(E, grown) ==
            IF E
            THEN Return([self |-> FragmentAssembler_reset(grown),
                         ret |-> Some([h |-> grown.first_header[1], b |-> grown.data[1]])])
            ELSE Return([self |-> grown, ret |-> None])
        append(p) ==
            IF ~p.ok THEN Raise(p.err)
            ELSE IF p.val[1].h.S THEN Raise("AssertionError")
            ELSE finish(p.val[1].h.E,
                        [self EXCEPT !.data = Some(self.data[1] \o p.val[1].r)])
    IN  IF self.data = None THEN Raise("AssertionError")
        ELSE IF self.first_header = None THEN Raise("AssertionError")
        ELSE append(parse_fu(data))

----------------------------------------------------------------------------
(* decode.py: parse_parse and parse_cat                                    *)

\* One pass of the loop of parse_parse left without yielding anything.
Pass(a, s, e, w) == [asm |-> a, asm_s_idx |-> s, yielded |-> None, err |-> e, what |-> w]

\* One pass of the loop of parse_parse that yields the pair (h, b).
Yield(a, s, h, b, w) ==
    [asm |-> a, asm_s_idx |-> s, yielded |-> Some([h |-> h, b |-> b]),
     err |-> "none", what |-> w]

\* The FRAG_UNIT branch leaving asm and asm_s_idx as they are when a unit is
\* yielded.
parse_parse_frag_keepAsm(a, s, idx, b) ==
    LET started(n) ==
            IF ~n.ok THEN Pass(a, s, n.err, "fu_start_raise")
            ELSE Pass(Some(n.val[1]), Some(idx), "none", "fu_start")
        continued(r) ==
            IF ~r.ok THEN Pass(a, s, r.err, "fu_next_raise")
            ELSE IF r.val[1].ret = None
                 THEN Pass(Some(r.val[1].self), s, "none", "fu_next")
            ELSE IF s = None
                 THEN Pass(Some(r.val[1].self), s, "AssertionError", "fu_next_raise")
            ELSE Yield(Some(r.val[1].self), s, r.val[1].ret[1].h, r.val[1].ret[1].b,
                       "fu_emit")
    IN  IF a = None THEN started(FragmentAssembler_init(b))
        ELSE continued(FragmentAssembler_next(a[1], b))

\* The FRAG_UNIT branch yielding a unit at once from a starting fragment that
\* has E set.
parse_parse_frag_startEnds(a, s, idx, b) ==
    LET started(n) ==
            IF ~n.ok THEN Pass(a, s, n.err, "fu_start_raise")
            ELSE IF n.val[1].first_header[1].E
                 THEN Yield(None, None, n.val[1].first_header[1], n.val[1].data[1],
                            "fu_emit")
            ELSE Pass(Some(n.val[1]), Some(idx), "none", "fu_start")
        continued(r) ==
            IF ~r.ok THEN Pass(a, s, r.err, "fu_next_raise")
            ELSE IF r.val[1].ret = None
                 THEN Pass(Some(r.val[1].self), s, "none", "fu_next")
            ELSE IF s = None
                 THEN Pass(Some(r.val[1].self), s, "AssertionError", "fu_next_raise")
            ELSE Yield(None, None, r.val[1].ret[1].h, r.val[1].ret[1].b, "fu_emit")
    IN  IF a = None THEN started(FragmentAssembler_init(b))
        ELSE continued(FragmentAssembler_next(a[1], b))

\* The branch of parse_parse for a fragmentation unit.
parse_parse_frag(a, s, idx, b) ==
    LET started(n) ==
            IF ~n.ok THEN Pass(a, s, n.err, "fu_start_raise")
            ELSE Pass(Some(n.val[1]), Some(idx), "none", "fu_start")
        continued(r) ==
            IF ~r.ok THEN Pass(a, s, r.err, "fu_next_raise")
            ELSE IF r.val[1].ret = None
                 THEN Pass(Some(r.val[1].self), s, "none", "fu_next")
            ELSE IF s = None
                 THEN Pass(Some(r.val[1].self), s, "AssertionError", "fu_next_raise")
            ELSE Yield(None, None, r.val[1].ret[1].h, r.val[1].ret[1].b, "fu_emit")
    IN  IF a = None THEN started(FragmentAssembler_init(b))
        ELSE continued(FragmentAssembler_next(a[1], b))

\* parse_parse yielding a single NAL unit without its 2-byte header.
parse_parse_single_stripped(a, s, nal_header, b) ==
    Yield(a, s, nal_header, From(b, 2), "single")

\* The single NAL unit branch dropping the assembler.
parse_parse_single_dropAsm(a, s, nal_header, b) ==
    Yield(None, None, nal_header, b, "single")

\* The last branch of parse_parse: a single NAL unit.
parse_parse_single(a, s, nal_header, b) == Yield(a, s, nal_header, b, "single")

\* parse_parse with aggregation and PACI packets falling through to the
\* single NAL unit branch.
parse_parse_body_noReject(a, s, idx, cat) ==
    LET dispatch(b, nal_header) ==
            IF ~nal_header.ok THEN Pass(a, s, nal_header.err, "nal_raise")
            ELSE IF nal_header.val[1].nal_unit_type = FRAG_UNIT
                 THEN parse_parse_frag(a, s, idx, b)
            ELSE parse_parse_single(a, s, nal_header.val[1], b)
        unwrapped(u) ==
            IF ~u.ok THEN Pass(a, s, u.err, "rtp_raise")
            ELSE dispatch(u.val[1].payload,
                          NetworkAbstractLayerHevc_unmarshal(Upto(u.val[1].payload, 2)))
    IN  unwrapped(unwrap_rtp(cat))

\* The body of the loop of parse_parse for the datagram cat of index idx,
\* from asm = a and asm_s_idx = s.
parse_parse_body(a, s, idx, cat) ==
    LET dispatch(b, nal_header) ==
            IF ~nal_header.ok THEN Pass(a, s, nal_header.err, "nal_raise")
            ELSE IF nal_header.val[1].nal_unit_type = FRAG_UNIT
                 THEN parse_parse_frag(a, s, idx, b)
            ELSE IF nal_header.val[1].nal_unit_type = AGG_PKT
                 THEN Pass(a, s, "NotImplementedError", "agg")
            ELSE IF nal_header.val[1].nal_unit_type = PACI_PKT
                 THEN Pass(a, s, "NotImplementedError", "paci")
            ELSE parse_parse_single(a, s, nal_header.val[1], b)
        unwrapped(u) ==
            IF ~u.ok THEN Pass(a, s, u.err, "rtp_raise")
            ELSE dispatch(u.val[1].payload,
                          NetworkAbstractLayerHevc_unmarshal(Upto(u.val[1].payload, 2)))
    IN  unwrapped(unwrap_rtp(cat))

HEVC_NAL_MAGIC == <<0, 0, 1>>

\* parse_cat writing an assembled unit without a header.
parse_cat_write_noHeader(h, b) ==
    IF h.cls = "FragmentUnitHeader" THEN Return(HEVC_NAL_MAGIC \o b)
    ELSE IF h.cls = "NetworkAbstractLayerHevc" THEN Return(HEVC_NAL_MAGIC \o b)
    ELSE Raise("ValueError")

\* The body of the loop of parse_cat: the bytes written for the pair (h, b).
parse_cat_write(h, b) ==
    IF h.cls = "FragmentUnitHeader"
    THEN LET dummy_nal == [cls |-> "NetworkAbstractLayerHevc",
                           forbidden_zero_bit |-> FALSE,
                           nal_unit_type |-> h.unit_type,
                           nuh_layer_id |-> 0,
                           nuh_temporal_id_plus_one |-> 1]
         IN  Return(HEVC_NAL_MAGIC \o NetworkAbstractLayerHevc_marshal(dummy_nal) \o b)
    ELSE IF h.cls = "NetworkAbstractLayerHevc" THEN Return(HEVC_NAL_MAGIC \o b)
    ELSE Raise("ValueError")

----------------------------------------------------------------------------
(* Codec harness: one codec applied to one input.                          *)

\* A few bytes that stand for all of them where a position is not decoded.
SomeBytes == {0, 1, 65, 255}

NalInputs ==
    {<<>>} \cup {<<a>> : a \in Byte}
           \cup {<<a, b>> : a \in Byte, b \in Byte}
           \cup {<<a, b, c>> : a \in {2, 64, 98, 128}, b \in {0, 1, 9, 7}, c \in SomeBytes}

FuInputs == {<<a>> : a \in Byte} \cup {<<a, c>> : a \in Byte, c \in SomeBytes}

CodecIdle ==
    /\ cOp = "none" /\ cIn = <<>> /\ cPc = "in" /\ cRes = Raise("none") /\ cEnc = <<>>

\* datagrams of n bytes: first byte a, second byte m, the j-th byte j after
RtpBytes(a, m, n) == [j \in 1..n |-> IF j = 1 THEN a ELSE IF j = 2 THEN m ELSE j]

\* every first byte, with and without the marker bit; shorter than the fixed
\* header, shorter than the CSRC list, exactly the headers, and with a payload
RtpInputs ==
    {RtpBytes(a, m, n) : a \in Byte, m \in {96, 224},
                         n \in {0, 1, 11, 12, 13, 17, 72, 75}}
    \cup UNION {{RtpBytes(a, 96, 12 + (4 * (a % 16)) + d) : d \in {-1, 0, 2}} :
                   a \in Byte}

\* FU payloads of 0 to 6 bytes: wrappers of type 49, 1, 48 and 50, and headers
\* that NAL header decoding refuses
ParseFuInputs ==
    {<<>>, <<98>>}
    \cup {<<a, b>> \o t : a \in {98, 2, 96, 100, 226, 99}, b \in {1, 2, 0, 9},
                          t \in {<<>>, <<129>>, <<129, 65>>, <<65, 65, 66>>,
                                 <<160, 65, 66, 67>>}}

CatIdle ==
    /\ catSrc = <<>> /\ catTail = <<>> /\ catData = <<>> /\ catOut = <<>>
    /\ catStatus = "running" /\ catErr = "none"

\* the state of a run of parse_cat before its first datagram
FreshRun ==
    [asm |-> None, asm_s_idx |-> None, i |-> 0, out |-> <<>>, written |-> <<>>,
     err |-> "none", status |-> "running"]

TwinIdle == twin = FreshRun /\ twinLast = <<>>

DepayIdle ==
    /\ fed = <<>> /\ asm = None /\ asm_s_idx = None /\ i = 0
    /\ out = <<>> /\ written = <<>> /\ err = "none" /\ status = "running"
    /\ log = <<>>

CodecInit ==
    /\ DepayIdle /\ CatIdle /\ TwinIdle
    /\ \/ cOp = "nal" /\ cIn \in NalInputs
       \/ cOp = "fu" /\ cIn \in FuInputs
       \/ cOp = "rtp" /\ cIn \in RtpInputs
       \/ cOp = "unwrap" /\ cIn \in RtpInputs
       \/ cOp = "parse_fu" /\ cIn \in ParseFuInputs
    /\ cPc = "in"
    /\ cRes = Raise("none")
    /\ cEnc = <<>>

NalUnmarshal ==
    /\ cOp = "nal" /\ cPc = "in"
    /\ cRes' = NetworkAbstractLayerHevc_unmarshal(cIn)
    /\ cPc' = "decoded"
    /\ UNCHANGED <<cOp, cIn, cEnc>>
    /\ UNCHANGED <<depayVars, catVars, twinVars>>

NalMarshal ==
    /\ cOp = "nal" /\ cPc = "decoded" /\ cRes.ok
    /\ cEnc' = NetworkAbstractLayerHevc_marshal(cRes.val[1])
    /\ cPc' = "encoded"
    /\ UNCHANGED <<cOp, cIn, cRes>>
    /\ UNCHANGED <<depayVars, catVars, twinVars>>

FuUnmarshal ==
    /\ cOp = "fu" /\ cPc = "in"
    /\ cRes' = FragmentUnitHeader_unmarshal(cIn)
    /\ cPc' = "decoded"
    /\ UNCHANGED <<cOp, cIn, cEnc>>
    /\ UNCHANGED <<depayVars, catVars, twinVars>>

RtpDecode ==
    /\ cOp = "rtp" /\ cPc = "in"
    /\ cRes' = decode_rtp_header(cIn)
    /\ cPc' = "decoded"
    /\ UNCHANGED <<cOp, cIn, cEnc>>
    /\ UNCHANGED <<depayVars, catVars, twinVars>>

RtpUnwrap ==
    /\ cOp = "unwrap" /\ cPc = "in"
    /\ cRes' = unwrap_rtp(cIn)
    /\ cPc' = "decoded"
    /\ UNCHANGED <<cOp, cIn, cEnc>>
    /\ UNCHANGED <<depayVars, catVars, twinVars>>

ParseFu ==
    /\ cOp = "parse_fu" /\ cPc = "in"
    /\ cRes' = parse_fu(cIn)
    /\ cPc' = "decoded"
    /\ UNCHANGED <<cOp, cIn, cEnc>>
    /\ UNCHANGED <<depayVars, catVars, twinVars>>

CodecNext ==
    \/ NalUnmarshal
    \/ NalMarshal
    \/ FuUnmarshal
    \/ RtpDecode
    \/ RtpUnwrap
    \/ ParseFu

SpecCodec == CodecInit /\ [][CodecNext]_vars

----------------------------------------------------------------------------
(* The run of parse_cat over a stream of datagrams.                        *)

MaxPackets == 3

\* RTP fixed headers: version 2, payload type 96; the second has the marker
\* bit set and one CSRC identifier.
RtpPlain == <<128, 96, 0, 1, 0, 0, 0, 10, 0, 0, 0, 7>>
RtpCsrc == <<129, 224, 0, 9, 0, 0, 0, 20, 0, 0, 0, 7, 1, 2, 3, 4>>

\* the FU wrapper header: type 49, layer 0, temporal id + 1 = 1
FuWrapper == <<98, 1>>

\* FU headers: S type 1, middle type 1, E type 1, E type 2, S and E type 1,
\* S with the 6-bit type field 32
FuHeaderBytes == {129, 1, 65, 66, 193, 160}

\* "AB", "CD" and no bytes at all
Fragments == {<<65, 66>>, <<67, 68>>, <<>>}

FuPayloads == {FuWrapper \o <<f>> \o d : f \in FuHeaderBytes, d \in Fragments}

\* single NAL units: type 32 "PS", type 1 with temporal id + 1 = 2,
\* type 51 (reserved), type 47 with no bytes after its header
SinglePayloads == {<<64, 1, 80, 83>>, <<2, 2, 7>>, <<102, 1, 9>>, <<94, 1>>}

\* an aggregation packet (type 48) and a PACI packet (type 50)
RejectedPayloads == {<<96, 1, 0, 1, 5>>, <<100, 1, 0>>}

\* no NAL header: too short, forbidden bit, layer id (low and high bit),
\* temporal id + 1 = 0; and an FU wrapper with no FU header
MalformedPayloads == {<<>>, <<2>>, <<130, 1, 0>>, <<2, 9, 0>>, <<3, 1, 0>>, <<2, 0, 0>>}

PacketSet ==
    {RtpPlain \o b : b \in FuPayloads \cup SinglePayloads \cup RejectedPayloads
                            \cup MalformedPayloads \cup {FuWrapper}}
    \cup {RtpCsrc \o b : b \in {<<64, 1, 80, 83>>, <<98, 1, 129, 65, 66>>,
                                 <<98, 1, 65, 67, 68>>, <<96, 1, 0>>}}
    \cup {<<128, 96, 0, 1>>, SubSeq(RtpCsrc, 1, 14)}

\* Where parse_parse goes with the datagram cat: "malformed" when unwrap_rtp or
\* the NAL header raises, else the NAL unit type.
Dispatch(cat) ==
    LET typed(h) ==
            IF ~h.ok THEN "malformed"
            ELSE IF h.val[1].nal_unit_type = FRAG_UNIT THEN "frag"
            ELSE IF h.val[1].nal_unit_type = AGG_PKT THEN "agg"
            ELSE IF h.val[1].nal_unit_type = PACI_PKT THEN "paci"
            ELSE "single"
        unwrapped(u) ==
            IF ~u.ok THEN "malformed"
            ELSE typed(NetworkAbstractLayerHevc_unmarshal(Upto(u.val[1].payload, 2)))
    IN  unwrapped(unwrap_rtp(cat))

\* What parse_cat writes for what one pass of parse_parse yields.
Written(r) ==
    IF r.yielded = None THEN Return(<<>>)
    ELSE parse_cat_write(r.yielded[1].h, r.yielded[1].b)

\* parse_cat takes the next datagram from iter_stream, parse_parse runs its
\* loop body on it, and parse_cat writes what it yields (while the generator is
\* running, which the actions below state).
Feed(cat) ==
    /\ Len(fed) < MaxPackets
    /\ \E r \in {parse_parse_body(asm, asm_s_idx, i, cat)} :
       \E w \in {Written(r)} :
           /\ fed' = Append(fed, cat)
           /\ asm' = r.asm
           /\ asm_s_idx' = r.asm_s_idx
           /\ i' = IF r.err = "none" THEN i + 1 ELSE i
           /\ out' = IF r.yielded = None THEN out ELSE Append(out, r.yielded[1])
           /\ written' = IF w.ok THEN written \o w.val[1] ELSE written
           /\ err' = IF r.err # "none" THEN r.err ELSE w.err
           /\ status' = IF r.err = "none" /\ w.ok THEN "running" ELSE "failed"
           /\ log' = Append(log, [what |-> r.what, asm_before |-> asm,
                                  nout |-> Len(out')])
    /\ UNCHANGED <<codecVars, catVars>>

\* The datagrams of PacketSet by the branch of parse_parse that takes them.
MalformedPackets == {cat \in PacketSet : Dispatch(cat) = "malformed"}
FragmentPackets == {cat \in PacketSet : Dispatch(cat) = "frag"}
AggregationPackets == {cat \in PacketSet : Dispatch(cat) = "agg"}
PaciPackets == {cat \in PacketSet : Dispatch(cat) = "paci"}
SinglePackets == {cat \in PacketSet : Dispatch(cat) = "single"}

FeedMalformed ==
    /\ status = "running"
    /\ \E cat \in MalformedPackets : Feed(cat)
    /\ UNCHANGED twinVars

FeedFragment ==
    /\ status = "running"
    /\ \E cat \in FragmentPackets : Feed(cat)
    /\ UNCHANGED twinVars

FeedAggregation ==
    /\ status = "running"
    /\ \E cat \in AggregationPackets : Feed(cat)
    /\ UNCHANGED twinVars

FeedPaci ==
    /\ status = "running"
    /\ \E cat \in PaciPackets : Feed(cat)
    /\ UNCHANGED twinVars

FeedSingle ==
    /\ status = "running"
    /\ \E cat \in SinglePackets : Feed(cat)
    /\ UNCHANGED twinVars

\* iter_stream is exhausted: the loop of parse_parse ends, the generator
\* returns and parse_cat closes the output file.
EndOfStream ==
    /\ status = "running"
    /\ status' = "done"
    /\ UNCHANGED <<fed, asm, asm_s_idx, i, out, written, err, log>>
    /\ UNCHANGED <<codecVars, catVars, twinVars>>

Init == DepayIdle /\ CodecIdle /\ CatIdle /\ TwinIdle

Next ==
    \/ FeedMalformed
    \/ FeedFragment
    \/ FeedAggregation
    \/ FeedPaci
    \/ FeedSingle
    \/ EndOfStream

Spec == Init /\ [][Next]_vars

----------------------------------------------------------------------------
(* Two runs of parse_cat on datagrams that differ in the RTP header fields  *)
(* the depayloader does not read                                           *)

\* other header fields for a datagram: whether its marker bit is flipped (m),
\* and the sequence number (2 bytes), timestamp (4) and SSRC (4) to write over
\* its bytes 3..12 (f)
HeaderRewrites ==
    {[m |-> TRUE, f |-> <<0, 2, 1, 2, 3, 4, 9, 9, 9, 9>>],
     [m |-> FALSE, f |-> <<255, 255, 127, 255, 255, 255, 0, 0, 0, 0>>]}

\* the datagram cat with its marker bit flipped when m, and its sequence
\* number, timestamp and SSRC replaced by f, as far as cat has these bytes
Rewrite(cat, m, f) ==
    [k \in 1..Len(cat) |->
        IF k = 2 /\ m THEN (cat[2] + 128) % 256
        ELSE IF k >= 3 /\ k <= 12 THEN f[k - 2]
        ELSE cat[k]]

\* Feed, on the state t of the second run
TwinStep(t, cat) ==
    LET step(r) ==
            LET wr(w) ==
                    [asm |-> r.asm,
                     asm_s_idx |-> r.asm_s_idx,
                     i |-> IF r.err = "none" THEN t.i + 1 ELSE t.i,
                     out |-> IF r.yielded = None THEN t.out
                             ELSE Append(t.out, r.yielded[1]),
                     written |-> IF w.ok THEN t.written \o w.val[1] ELSE t.written,
                     err |-> IF r.err # "none" THEN r.err ELSE w.err,
                     status |-> IF r.err = "none" /\ w.ok THEN "running"
                                ELSE "failed"]
            IN  wr(Written(r))
    IN  IF t.status # "running" THEN t
        ELSE step(parse_parse_body(t.asm, t.asm_s_idx, t.i, cat))

\* Both runs take their next datagram: the first cat, the second cat with other
\* values in the marker, sequence number, timestamp and SSRC.
TwinFeed ==
    /\ status = "running"
    /\ \E cat \in PacketSet : \E v \in HeaderRewrites :
           /\ Feed(cat)
           /\ twin' = TwinStep(twin, Rewrite(cat, v.m, v.f))
           /\ twinLast' = Rewrite(cat, v.m, v.f)

TwinNext == TwinFeed \/ EndOfStream

SpecTwin == Init /\ [][TwinNext]_vars

----------------------------------------------------------------------------
(* serve.py: the cat framing                                               *)

MAGIC == <<99, 97, 116>>

needed_bytes == Len(MAGIC) + 4

\* struct.pack("!I", n)
PackU32(n) ==
    <<(n \div 16777216) % 256, (n \div 65536) % 256, (n \div 256) % 256, n % 256>>

pack_with_cat(data) == MAGIC \o PackU32(Len(data)) \o data

\* unpack_cat taking the rest from data[length:], the header not counted.
unpack_cat_restNoHeader(data) ==
    IF Len(data) < needed_bytes THEN Raise("struct.error")
    ELSE IF Upto(data, Len(MAGIC)) # MAGIC THEN Raise("AssertionError")
    ELSE Return([data |-> Slice(data, needed_bytes,
                                needed_bytes + BigEndian(data, Len(MAGIC), needed_bytes)),
                 rest |-> From(data, BigEndian(data, Len(MAGIC), needed_bytes))])

\* unpack_cat without the assertion on the magic.
unpack_cat_noMagic(data) ==
    IF Len(data) < needed_bytes THEN Raise("struct.error")
    ELSE Return([data |-> Slice(data, needed_bytes,
                                needed_bytes + BigEndian(data, Len(MAGIC), needed_bytes)),
                 rest |-> From(data, needed_bytes
                                       + BigEndian(data, Len(MAGIC), needed_bytes))])

\* unpack_cat: the record (data) and what follows it (rest)
unpack_cat(data) ==
    IF Len(data) < needed_bytes THEN Raise("struct.error")
    ELSE IF Upto(data, Len(MAGIC)) # MAGIC THEN Raise("AssertionError")
    ELSE Return([data |-> Slice(data, needed_bytes,
                                needed_bytes + BigEndian(data, Len(MAGIC), needed_bytes)),
                 rest |-> From(data, needed_bytes
                                       + BigEndian(data, Len(MAGIC), needed_bytes))])

MaxRecords == 2

\* datagrams: empty, one byte, the magic alone, and a whole empty record
\* followed by a byte
CatDatagrams == {<<>>, <<7>>, <<99, 97, 116>>, <<99, 97, 116, 0, 0, 0, 0, 5>>}

\* what follows the packed datagrams: nothing; 3 bytes; a header cut after 6
\* bytes; a record that declares 5 bytes and has 2; a record that declares 256
\* bytes and has none; 7 bytes that do not start with the magic
CatTails ==
    {<<>>, <<1, 2, 3>>, <<99, 97, 116, 0, 0, 0>>, <<99, 97, 116, 0, 0, 0, 5, 8, 9>>,
     <<99, 97, 116, 0, 0, 1, 0>>, <<100, 97, 116, 0, 0, 0, 0>>}

\* what main of serve.py writes for the datagrams ps: their records, one after
\* the other
RECURSIVE PackAll(_)
PackAll(ps) ==
    IF ps = <<>> THEN <<>>
    ELSE pack_with_cat(Head(ps)) \o PackAll(Tail(ps))

CatInit ==
    /\ DepayIdle /\ CodecIdle /\ TwinIdle
    /\ catSrc \in UNION {[1..n -> CatDatagrams] : n \in 0..MaxRecords}
    /\ catTail \in CatTails
    /\ catData = PackAll(catSrc) \o catTail
    /\ catOut = <<>>
    /\ catStatus = "running"
    /\ catErr = "none"

\* One pass of the loop of iter_stream that yields a record.
CatYield ==
    /\ catStatus = "running"
    /\ Len(catData) >= needed_bytes
    /\ \E u \in {unpack_cat(catData)} :
           /\ u.ok
           /\ catOut' = Append(catOut, u.val[1].data)
           /\ catData' = u.val[1].rest
    /\ UNCHANGED <<catSrc, catTail, catStatus, catErr>>
    /\ UNCHANGED <<depayVars, codecVars, twinVars>>

\* One pass of the loop of iter_stream in which unpack_cat raises.
CatRaise ==
    /\ catStatus = "running"
    /\ Len(catData) >= needed_bytes
    /\ \E u \in {unpack_cat(catData)} :
           /\ ~u.ok
           /\ catErr' = u.err
           /\ catStatus' = "failed"
    /\ UNCHANGED <<catSrc, catTail, catData, catOut>>
    /\ UNCHANGED <<depayVars, codecVars, twinVars>>

\* The loop of iter_stream ends: fewer than needed_bytes bytes are left.
CatEnd ==
    /\ catStatus = "running"
    /\ Len(catData) < needed_bytes
    /\ catStatus' = "done"
    /\ UNCHANGED <<catSrc, catTail, catData, catOut, catErr>>
    /\ UNCHANGED <<depayVars, codecVars, twinVars>>

CatNext == CatYield \/ CatRaise \/ CatEnd

SpecCat == CatInit /\ [][CatNext]_vars

\* The consumer of iter_stream keeps asking for the next record.
SpecCatFair == SpecCat /\ WF_vars(CatNext)

----------------------------------------------------------------------------
(* What the properties read off the datagrams, byte by byte.               *)

\* the RTP payload of a datagram of at least 12 bytes
PayloadOf(pkt) == From(pkt, 12 + (4 * (pkt[1] % 16)))

\* the datagram carries a 2-byte NAL header that conforms
HasNalHeader(pkt) ==
    /\ Len(pkt) >= 12
    /\ Len(PayloadOf(pkt)) >= 2
    /\ PayloadOf(pkt)[1] < 128
    /\ PayloadOf(pkt)[1] % 2 = 0
    /\ PayloadOf(pkt)[2] \div 8 = 0
    /\ PayloadOf(pkt)[2] % 8 # 0

NalTypeOf(pkt) == (PayloadOf(pkt)[1] % 128) \div 2

\* an FU packet: wrapper of type 49 followed by an FU header byte
IsFu(pkt) == HasNalHeader(pkt) /\ NalTypeOf(pkt) = 49 /\ Len(PayloadOf(pkt)) >= 3

FuS(pkt) == PayloadOf(pkt)[3] >= 128
FuE(pkt) == (PayloadOf(pkt)[3] \div 64) % 2 = 1

\* the number of units yielded before the j-th datagram was processed
NoutBefore(j) == IF j = 1 THEN 0 ELSE log[j - 1].nout

\* the datagram whose processing yielded the k-th unit
ProducedAt(k) == CHOOSE j \in 1..Len(log) : log[j].nout = k /\ NoutBefore(j) = k - 1

Steps == 1..Len(fed)

----------------------------------------------------------------------------
(* Fragmented runs                                                         *)

\* datagrams a..b are FU packets, each with at least one fragment byte, S set
\* on a alone and E on b alone
FuRun(a, b) ==
    \A j \in a..b :
        /\ IsFu(fed[j])
        /\ Len(PayloadOf(fed[j])) >= 4
        /\ FuS(fed[j]) <=> (j = a)
        /\ FuE(fed[j]) <=> (j = b)

\* the bytes after the 3-byte prefix of datagrams a..b, in arrival order
RECURSIVE FragmentsOf(_, _)
FragmentsOf(a, b) ==
    IF b < a THEN <<>> ELSE FragmentsOf(a, b - 1) \o From(PayloadOf(fed[b]), 3)

\* the unit_type that FU decoding gives for the FU header of a datagram
FuUnitTypeOf(pkt) ==
    FragmentUnitHeader_unmarshal(Slice(PayloadOf(pkt), 2, 3)).val[1].unit_type

\* C1: a run of k >= 2 consecutive FU packets that starts while asm is None,
\* with S on the first alone and E on the last alone (each packet one that FU
\* decoding accepts), yields nothing before its last packet and exactly one
\* FragmentUnitHeader unit at its last packet, whose bytes are the packets'
\* bytes after the 3-byte prefix in arrival order and whose unit_type is the
\* one decoded from the first packet's FU header.
C1_FuRunYieldsOneUnit ==
    \A a \in Steps : \A b \in Steps :
        (a < b /\ log[a].asm_before = None /\ FuRun(a, b)) =>
            /\ \A j \in a..(b - 1) : log[j].nout = NoutBefore(a)
            /\ log[b].nout = NoutBefore(a) + 1
            /\ out[log[b].nout].h.cls = "FragmentUnitHeader"
            /\ out[log[b].nout].b = FragmentsOf(a, b)
            /\ out[log[b].nout].h.unit_type = FuUnitTypeOf(fed[a])

\* A run of three FU packets whose last FU header carries another type than
\* its first has been reassembled.
C1_Witness ==
    /\ Len(fed) = 3 /\ FuRun(1, 3)
    /\ PayloadOf(fed[1])[3] % 64 # PayloadOf(fed[3])[3] % 64
    /\ Len(out) = 1
    /\ Len(out[1].b) = 6

----------------------------------------------------------------------------
(* Single NAL unit packets                                                 *)

AllSingle == \A j \in Steps : HasNalHeader(fed[j]) /\ NalTypeOf(fed[j]) \in 0..47

\* C2 as stated: N single NAL unit packets yield N NetworkAbstractLayerHevc
\* units in input order, the i-th with the bytes of the i-th RTP payload after
\* its 2-byte NAL header.
C2_SingleUnitsWithoutHeader ==
    AllSingle =>
        /\ status # "failed"
        /\ Len(out) = Len(fed)
        /\ \A j \in Steps :
              /\ out[j].h.cls = "NetworkAbstractLayerHevc"
              /\ out[j].b = From(PayloadOf(fed[j]), 2)

\* C2 amended: N single NAL unit packets yield N NetworkAbstractLayerHevc
\* units in input order, the i-th with the whole of the i-th RTP payload, its
\* 2-byte NAL header included, and with the header decoded from those 2 bytes.
C2_SingleUnitsKeepHeader ==
    AllSingle =>
        /\ status # "failed"
        /\ Len(out) = Len(fed)
        /\ \A j \in Steps :
              /\ out[j].h.cls = "NetworkAbstractLayerHevc"
              /\ out[j].h.nal_unit_type = NalTypeOf(fed[j])
              /\ out[j].b = PayloadOf(fed[j])

\* Three different single NAL unit packets have been processed.
C2_Witness ==
    /\ Len(fed) = 3 /\ AllSingle
    /\ fed[1] # fed[2] /\ fed[2] # fed[3] /\ fed[1] # fed[3]
    /\ Len(out) = 3
    /\ out[1].b = PayloadOf(fed[1])

----------------------------------------------------------------------------
(* The bitstream                                                           *)

\* the record of the k-th unit: start code, 2-byte header, payload
RecordOf(k) ==
    IF out[k].h.cls = "NetworkAbstractLayerHevc"
    THEN <<0, 0, 1>> \o Upto(PayloadOf(fed[ProducedAt(k)]), 2)
                     \o From(PayloadOf(fed[ProducedAt(k)]), 2)
    ELSE <<0, 0, 1>> \o <<out[k].h.unit_type * 2, 1>> \o out[k].b

RECURSIVE Bitstream(_)
Bitstream(k) == IF k = 0 THEN <<>> ELSE Bitstream(k - 1) \o RecordOf(k)

\* the packets A, B, C of the round-trip scenario
ScenarioPackets ==
    << RtpPlain \o <<64, 1, 80, 83>>,
       RtpPlain \o <<98, 1, 129, 65, 66>>,
       RtpPlain \o <<98, 1, 65, 67, 68>> >>

\* C3: while the run has not failed, the bytes written are the records of the
\* yielded units in order and nothing else: for a single NAL unit the start
\* code 00 00 01, the packet's 2-byte NAL header and the bytes after it; for an
\* assembled unit the start code, the header (F 0, type unit_type, layer 0,
\* temporal id + 1 = 1) and the assembled bytes. The packets A, B, C give
\* 00 00 01 40 01 "PS" 00 00 01 02 01 "ABCD".
C3_BitstreamIsRecords ==
    status # "failed" =>
        /\ written = Bitstream(Len(out))
        /\ fed = ScenarioPackets =>
              written = <<0, 0, 1, 64, 1, 80, 83, 0, 0, 1, 2, 1, 65, 66, 67, 68>>

\* The run over A, B, C has ended with both units written.
C3_Witness ==
    /\ fed = ScenarioPackets
    /\ status = "done"
    /\ Len(out) = 2
    /\ Len(written) = 16

----------------------------------------------------------------------------
(* Errors of the depacketizer                                              *)

\* the j-th datagram ended the run with exception e and yielded nothing
FailedAt(j, e) ==
    /\ j = Len(fed)
    /\ status = "failed"
    /\ err = e
    /\ log[j].nout = NoutBefore(j)
    /\ Len(out) = NoutBefore(j)

\* C4: an FU packet with S = 0 processed while asm is None raises
\* AssertionError and yields no unit.
C4_ContinuationWhileIdleRaises ==
    \A j \in Steps :
        (IsFu(fed[j]) /\ ~FuS(fed[j]) /\ log[j].asm_before = None) =>
            FailedAt(j, "AssertionError")

\* An FU packet with S = 0 and fragment bytes came after a yielded unit while
\* asm was None.
C4_Witness ==
    \E j \in Steps :
        /\ j > 1
        /\ IsFu(fed[j]) /\ ~FuS(fed[j]) /\ log[j].asm_before = None
        /\ Len(PayloadOf(fed[j])) >= 4
        /\ Len(out) = 1

\* C5: a packet of NAL unit type 48 or 50 that is processed raises
\* NotImplementedError whatever asm is: the units of the earlier packets stay
\* yielded, the packet yields none, and no packet is processed after it.
C5_UnsupportedPacketEndsRun ==
    \A j \in Steps :
        (HasNalHeader(fed[j]) /\ NalTypeOf(fed[j]) \in {48, 50}) =>
            FailedAt(j, "NotImplementedError")

\* A packet of type 48 or 50 came in the middle of a fragmented run, after a
\* unit had been yielded.
C5_Witness ==
    \E j \in Steps :
        /\ HasNalHeader(fed[j]) /\ NalTypeOf(fed[j]) \in {48, 50}
        /\ log[j].asm_before # None
        /\ Len(out) = 1

\* C6: an FU packet with S = 1 processed while asm holds a run raises
\* AssertionError, yields no unit and leaves asm as it was: the run in flight
\* is neither dropped nor replaced.
C6_StartWhileAccumulatingRaises ==
    \A j \in Steps :
        (IsFu(fed[j]) /\ FuS(fed[j]) /\ log[j].asm_before # None) =>
            /\ FailedAt(j, "AssertionError")
            /\ asm = log[j].asm_before

\* An FU packet with S = 1 and fragment bytes came while asm held a run of
\* two fragments.
C6_Witness ==
    \E j \in Steps :
        /\ IsFu(fed[j]) /\ FuS(fed[j]) /\ log[j].asm_before # None
        /\ Len(PayloadOf(fed[j])) >= 4
        /\ Len(asm[1].data[1]) = 4

\* C7 as stated: the stream never ends normally while asm holds a run; a run
\* cut short by the end of the stream is an error.
C7_TruncatedRunRaises == status = "done" => asm = None

----------------------------------------------------------------------------
(* Codecs                                                                  *)

\* C8 as stated: FU decoding gives S = bit 7, E = bit 6 and unit_type = the
\* 6-bit field in bits 5..0 of the FU header byte.
C8_FuHeaderSixBitType ==
    (cOp = "fu" /\ cPc = "decoded") =>
        /\ cRes.ok
        /\ cRes.val[1].S = (cIn[1] >= 128)
        /\ cRes.val[1].E = ((cIn[1] \div 64) % 2 = 1)
        /\ cRes.val[1].unit_type = cIn[1] % 64

\* C9: a 2-byte input that NAL header decoding accepts is what encoding the
\* decoded header gives back.
C9_NalRoundTrip ==
    (cOp = "nal" /\ cPc = "encoded" /\ Len(cIn) = 2) => cEnc = cIn

\* A header of type 33 and temporal id + 1 = 5 has been decoded and encoded.
C9_Witness ==
    cOp = "nal" /\ cPc = "encoded" /\ cIn = <<66, 5>> /\ cEnc = <<66, 5>>

\* the input is one NAL header decoding must refuse
NalRefused(x) ==
    \/ Len(x) < 2
    \/ x[1] >= 128
    \/ x[1] % 2 = 1
    \/ x[2] \div 8 # 0
    \/ x[2] % 8 = 0

\* C10: NAL header decoding raises ValueError and returns no header exactly
\* when the input has fewer than 2 bytes, or bit 7 of byte 0 is set, or the
\* low bit of byte 0 or one of the top 5 bits of byte 1 is set, or the low 3
\* bits of byte 1 are 0; any other input is accepted with nal_unit_type =
\* bits 6..1 of byte 0.
C10_NalDecodeRefusesExactly ==
    (cOp = "nal" /\ cPc # "in") =>
        IF NalRefused(cIn)
        THEN ~cRes.ok /\ cRes.err = "ValueError" /\ cRes.val = None
        ELSE /\ cRes.ok
             /\ cRes.val[1].nal_unit_type = (cIn[1] % 128) \div 2
             /\ cRes.val[1].nuh_temporal_id_plus_one = cIn[2] % 8

\* A header whose only fault is temporal id + 1 = 0 has been refused.
C10_Witness ==
    cOp = "nal" /\ cPc = "decoded" /\ cIn = <<66, 0>> /\ ~cRes.ok

----------------------------------------------------------------------------
(* RTP header and FU payload decoding                                      *)

\* C11: decode_rtp_header raises ValueError on fewer than 12 bytes, and on a
\* packet of at least 12 + 4 * csrc_count bytes, csrc_count the low 4 bits of
\* byte 0, it returns a header whose header_length is 12 + 4 * csrc_count,
\* whatever the other bits of bytes 0 and 1 are.
C11_RtpDecodeOffset ==
    (cOp = "rtp" /\ cPc = "decoded") =>
        /\ Len(cIn) < 12 => (~cRes.ok /\ cRes.err = "ValueError")
        /\ (Len(cIn) >= 12 /\ Len(cIn) >= 12 + (4 * (cIn[1] % 16))) =>
              /\ cRes.ok
              /\ cRes.val[1].csrc_count = cIn[1] % 16
              /\ header_length(cRes.val[1]) = 12 + (4 * (cIn[1] % 16))

\* A packet with version 3, padding, extension, 15 CSRC identifiers and the
\* marker bit, of exactly 72 bytes, has been decoded.
C11_Witness ==
    /\ cOp = "rtp" /\ cPc = "decoded"
    /\ cIn = RtpBytes(255, 224, 72)
    /\ cRes.ok
    /\ header_length(cRes.val[1]) = 72

\* C12 as stated: unwrap_rtp raises ValueError on a packet of at least 12
\* bytes that is shorter than 12 + 4 * csrc_count.
C12_UnwrapRefusesShortCsrc ==
    (cOp = "unwrap" /\ cPc = "decoded" /\ Len(cIn) >= 12
        /\ Len(cIn) < 12 + (4 * (cIn[1] % 16))) =>
            ~cRes.ok /\ cRes.err = "ValueError"

\* C20: parse_fu raises AssertionError on a payload of fewer than 4 bytes (one
\* of exactly 3 bytes among them) and on a payload whose first 2 bytes decode
\* to a NAL header of another type than 49; a payload of at least 4 bytes with
\* a wrapper of type 49 gives the FU header of byte 2 and the bytes from
\* offset 3 on.
C20_ParseFuRequiresFragment ==
    (cOp = "parse_fu" /\ cPc = "decoded") =>
        /\ Len(cIn) < 4 => (~cRes.ok /\ cRes.err = "AssertionError")
        /\ (Len(cIn) >= 4 /\ ~NalRefused(cIn) /\ (cIn[1] % 128) \div 2 # 49) =>
              (~cRes.ok /\ cRes.err = "AssertionError")
        /\ (Len(cIn) >= 4 /\ ~NalRefused(cIn) /\ (cIn[1] % 128) \div 2 = 49) =>
              /\ cRes.ok
              /\ cRes.val[1].r = From(cIn, 3)
              /\ Len(cRes.val[1].r) = Len(cIn) - 3
              /\ cRes.val[1].h.S = (cIn[3] >= 128)

\* A 3-byte FU payload with a wrapper of type 49 and S set has been refused.
C20_Witness ==
    /\ cOp = "parse_fu" /\ cPc = "decoded"
    /\ cIn = <<98, 1, 129>>
    /\ ~cRes.ok

----------------------------------------------------------------------------
(* The cat framing                                                         *)

\* C13: over the records of the datagrams p1..pn, one after the other (and
\* then fewer than 7 bytes, none included), iter_stream never raises, what it
\* has yielded is at any time a prefix of p1..pn, and it is p1..pn when fewer
\* than 7 bytes are left, which is when the stream ends.
C13_CatRoundTrip ==
    Len(catTail) < 7 =>
        /\ catStatus # "failed"
        /\ Len(catOut) <= Len(catSrc)
        /\ catOut = SubSeq(catSrc, 1, Len(catOut))
        /\ Len(catData) < 7 => (catOut = catSrc /\ catData = catTail)
        /\ catStatus = "done" => Len(catData) < 7
        /\ (catStatus = "running" /\ Len(catData) < 7) => ~ENABLED CatYield

\* Two datagrams, an empty one and one that itself holds a record, have been
\* packed with nothing after them, and the stream has ended.
C13_Witness ==
    /\ catSrc = <<<<>>, <<99, 97, 116, 0, 0, 0, 0, 5>>>>
    /\ catTail = <<>>
    /\ catStatus = "done"
    /\ catOut = catSrc

\* the tail is a record with the magic that declares more bytes than it has
TruncatedTail ==
    /\ Len(catTail) >= 7
    /\ SubSeq(catTail, 1, 3) = <<99, 97, 116>>
    /\ (((catTail[4] * 256 + catTail[5]) * 256 + catTail[6]) * 256) + catTail[7]
          > Len(catTail) - 7

\* the tail is 7 bytes or more that do not start with the magic
BadMagicTail == Len(catTail) >= 7 /\ SubSeq(catTail, 1, 3) # <<99, 97, 116>>

\* C19: iter_stream ends on every byte string (it returns or raises), each
\* yielded record takes at least 7 bytes of the input; a last record that
\* declares more bytes than are left is yielded with the bytes that are left
\* and no error; fewer than 7 trailing bytes are dropped with no error; and
\* bytes that do not start with "cat" raise AssertionError and are not yielded.
C19_IterStreamTerminates ==
    /\ [](/\ Len(catData) + (7 * Len(catOut)) <= Len(PackAll(catSrc) \o catTail)
          /\ Len(catOut) <= Len(catSrc) + 1
          /\ TruncatedTail =>
                /\ catStatus # "failed"
                /\ catStatus = "done" =>
                      catOut = Append(catSrc, SubSeq(catTail, 8, Len(catTail)))
          /\ Len(catTail) < 7 =>
                /\ catStatus # "failed"
                /\ catStatus = "done" => catOut = catSrc
          /\ BadMagicTail =>
                /\ catStatus # "done"
                /\ Len(catOut) <= Len(catSrc)
                /\ catStatus = "failed" =>
                      (catErr = "AssertionError" /\ catOut = catSrc))
    /\ <>(catStatus # "running")

\* A record that declares 5 bytes and has 2 has been yielded with those 2
\* bytes after two whole records, and the stream has ended.
C19_Witness ==
    /\ catTail = <<99, 97, 116, 0, 0, 0, 5, 8, 9>>
    /\ Len(catSrc) = 2
    /\ catStatus = "done"
    /\ catOut = Append(catSrc, <<8, 9>>)

----------------------------------------------------------------------------
(* RTP header fields that are decoded and not used                         *)

\* C14: two runs over datagrams that differ only in the marker bit, the
\* sequence number, the timestamp and the SSRC yield the same units, write the
\* same bitstream, hold the same reassembly state and fail alike.
C14_HeaderFieldsIgnored ==
    /\ twin.out = out
    /\ twin.written = written
    /\ twin.asm = asm
    /\ twin.asm_s_idx = asm_s_idx
    /\ twin.i = i
    /\ twin.err = err
    /\ (twin.status = "failed") <=> (status = "failed")

\* A fragmented unit has been put together from two FU packets while the
\* second run saw other header fields, and a single unit came before them.
C14_Witness ==
    /\ Len(fed) = 3
    /\ twinLast # fed[3]
    /\ log[3].what = "fu_emit"
    /\ Len(out) = 2
    /\ twin.out = out

----------------------------------------------------------------------------
(* The reassembly state                                                    *)

\* asm after the first n datagrams
AsmAt(n) == IF n < Len(fed) THEN log[n + 1].asm_before ELSE asm

\* the last FU packet with S set among the first j datagrams
StartBefore(j) ==
    CHOOSE a \in 1..j :
        /\ IsFu(fed[a]) /\ FuS(fed[a])
        /\ \A c \in (a + 1)..j : ~(IsFu(fed[c]) /\ FuS(fed[c]))

\* an FU packet with S set has come and no FU packet with E set after it
OpenRun ==
    \E a \in Steps :
        /\ IsFu(fed[a]) /\ FuS(fed[a])
        /\ \A c \in (a + 1)..Len(fed) : ~(IsFu(fed[c]) /\ FuE(fed[c]))

\* the bytes after the 3-byte prefix of the FU packets among datagrams a..b
RECURSIVE FuFragmentsOf(_, _)
FuFragmentsOf(a, b) ==
    IF b < a THEN <<>>
    ELSE FuFragmentsOf(a, b - 1)
           \o (IF IsFu(fed[b]) THEN From(PayloadOf(fed[b]), 3) ELSE <<>>)

\* C15: while no datagram has raised, asm holds an assembler exactly when an
\* FU packet with S = 1 has been taken and no FU packet with E = 1 after it;
\* the one assembler held has the fragments of the FU packets since that start
\* and of no other packet; and right after a unit is yielded on E = 1 asm and
\* asm_s_idx are None, the assembler's _data and _first_header are None, and
\* the unit's bytes are the fragments of its own run alone.
C15_ReassemblyState ==
    status # "failed" =>
        /\ (asm # None) <=> OpenRun
        /\ (asm # None) <=> (asm_s_idx # None)
        /\ asm # None =>
              /\ asm[1].data = Some(FuFragmentsOf(StartBefore(Len(fed)), Len(fed)))
              /\ asm[1].first_header # None
              /\ asm_s_idx = Some(StartBefore(Len(fed)) - 1)
        /\ \A j \in Steps :
              (IsFu(fed[j]) /\ FuE(fed[j]) /\ ~FuS(fed[j])) =>
                  /\ log[j].asm_before # None
                  /\ AsmAt(j) = None
                  /\ j = Len(fed) => asm_s_idx = None
                  /\ FragmentAssembler_next(log[j].asm_before[1],
                                            PayloadOf(fed[j])).val[1].self
                        = [first_header |-> None, data |-> None]
                  /\ log[j].nout = NoutBefore(j) + 1
                  /\ out[log[j].nout].b = FuFragmentsOf(StartBefore(j), j)

\* A run of two FU packets has yielded its unit and a new run has started
\* with other bytes.
C15_Witness ==
    /\ Len(fed) = 3
    /\ status = "running"
    /\ log[2].what = "fu_emit"
    /\ log[3].what = "fu_start"
    /\ out[1].b = <<65, 66, 65, 66>>
    /\ asm # None
    /\ asm[1].data = Some(<<67, 68>>)

----------------------------------------------------------------------------
(* Single NAL units between the fragments of a run                         *)

\* the datagram carries a NAL header of a type other than 48, 49 and 50
IsDirect(pkt) == HasNalHeader(pkt) /\ NalTypeOf(pkt) \notin {48, 49, 50}

\* C16: a packet of a NAL unit type other than 48, 49 and 50 is yielded as a
\* NetworkAbstractLayerHevc unit in the pass that takes it, whether or not an
\* assembler is held; asm is after it what it was before it; its unit comes
\* before the unit of the run it falls into, and that unit's bytes are the
\* fragments of the FU packets alone.
C16_DirectUnitInterleaved ==
    \A j \in Steps :
        IsDirect(fed[j]) =>
            /\ log[j].what = "single"
            /\ log[j].nout = NoutBefore(j) + 1
            /\ Len(out) >= log[j].nout
            /\ out[log[j].nout].h.cls = "NetworkAbstractLayerHevc"
            /\ out[log[j].nout].h.nal_unit_type = NalTypeOf(fed[j])
            /\ AsmAt(j) = log[j].asm_before
            /\ (j = Len(fed) /\ log[j].asm_before # None) =>
                  asm_s_idx = Some(StartBefore(j) - 1)
            /\ j = Len(fed) => (status # "failed" /\ err = "none")
            /\ \A e \in Steps :
                  (e > j /\ log[j].asm_before # None /\ log[e].what = "fu_emit"
                     /\ StartBefore(e) < j) =>
                      /\ log[e].nout > log[j].nout
                      /\ out[log[e].nout].b = FuFragmentsOf(StartBefore(e), e)

\* A single NAL unit "PS" of type 32 came between the two FU packets of a run
\* and was yielded first; the run then yielded "ABCD".
C16_Witness ==
    /\ Len(fed) = 3
    /\ fed[2] = RtpPlain \o <<64, 1, 80, 83>>
    /\ log[2].asm_before # None
    /\ log[3].what = "fu_emit"
    /\ Len(out) = 2
    /\ out[1].b = <<64, 1, 80, 83>>
    /\ out[2].b = <<65, 66, 67, 68>>

----------------------------------------------------------------------------
(* The assembler after a refused FU packet                                 *)

\* C17 as stated: when an FU packet is refused with AssertionError (S = 0
\* while no assembler is held, S = 1 while one is held, or a payload that
\* parse_fu refuses), the assembler is dropped with the bytes it held: asm and
\* asm_s_idx are None after the error.
C17_ViolationResetsAssembler ==
    \A j \in Steps :
        (/\ j = Len(fed)
         /\ status = "failed"
         /\ err = "AssertionError"
         /\ log[j].what \in {"fu_start_raise", "fu_next_raise"}) =>
            /\ asm = None
            /\ asm_s_idx = None

----------------------------------------------------------------------------
(* A starting fragment with E set                                          *)

\* an FU packet that parse_fu accepts, with S and E both set, taken while no
\* assembler is held
StartWithE(j) ==
    /\ IsFu(fed[j])
    /\ Len(PayloadOf(fed[j])) >= 4
    /\ FuS(fed[j])
    /\ FuE(fed[j])
    /\ log[j].asm_before = None

\* C18: an FU packet with S = 1 and E = 1 taken while no assembler is held
\* yields nothing and raises nothing: an assembler is held after it with the
\* packet's fragment bytes; a unit comes only with a later FU packet that has
\* S = 0 and E = 1, and it has the bytes of both.
C18_StartWithEndBitAccumulates ==
    \A j \in Steps :
        StartWithE(j) =>
            /\ log[j].what = "fu_start"
            /\ log[j].nout = NoutBefore(j)
            /\ j = Len(fed) => (status # "failed" /\ err = "none")
            /\ AsmAt(j) # None
            /\ AsmAt(j)[1].data = Some(From(PayloadOf(fed[j]), 3))
            /\ AsmAt(j)[1].first_header[1].E
            /\ \A e \in Steps :
                  (/\ e > j
                   /\ IsFu(fed[e])
                   /\ log[e].nout > NoutBefore(e)
                   /\ \A c \in (j + 1)..(e - 1) :
                         ~(IsFu(fed[c]) /\ log[c].nout > NoutBefore(c))) =>
                      /\ ~FuS(fed[e])
                      /\ FuE(fed[e])
                      /\ out[log[e].nout].b = FuFragmentsOf(j, e)

\* "AB" came with S and E both set, nothing was yielded, and "ABCD" was
\* yielded when "CD" came with E alone.
C18_Witness ==
    /\ Len(fed) = 2
    /\ StartWithE(1)
    /\ log[1].nout = 0
    /\ log[2].what = "fu_emit"
    /\ out[1].b = <<65, 66, 67, 68>>

====
